---- MODULE Spec2Model ----
(***************************************************************************)
(* Saturating unsigned 8-bit arithmetic of scikits.image                   *)
(* (src/scikits/image/util/uintmath.py), as a state machine of calls.      *)
(*                                                                         *)
(* The repository is Python 2 code (print statements, nose), so `/` on two *)
(* integers is floor division, for Python ints and for NumPy integer       *)
(* arrays alike.  NumPy of that era casts by value: an integer array       *)
(* combined with a Python int that fits the array's dtype keeps the        *)
(* array's dtype, so arithmetic on a uint8 array wraps modulo 256.         *)
(*                                                                         *)
(* An operand is a record [kind, dtype, val]:                              *)
(*   kind  "scalar" or "array" (one-dimensional; its shape is Len(val))    *)
(*   dtype "int" / "float" for Python numbers, "uint8" / "int64" /         *)
(*         "float64" for NumPy storage                                     *)
(*   val   the elements; a scalar has one.  An element of a floating-point *)
(*         dtype is stored in halves (the number times 2), so 1.0 is 2 and *)
(*         1.5 is 3; an element of an integer dtype is stored as itself.   *)
(*   obj   which object it is: "a" and "b" are the caller's two operands,  *)
(*         "new" is an object made during the call.                        *)
(*                                                                         *)
(* a and b are the operands as passed; a_after and b_after are what the    *)
(* same two objects hold when the call has ended.                          *)
(***************************************************************************)
EXTENDS Integers, Sequences, FiniteSets

VARIABLES pc, op, a, b, out, out2, a_after, b_after

vars == <<pc, op, a, b, out, out2, a_after, b_after>>

MIN_UINT == 0
MAX_UINT == 255

\* Longest array (number of elements along its one axis).
MaxLen == 3

(***************************************************************************)
(* Inputs                                                                  *)
(***************************************************************************)
Scalar(dtype, v) ==
    [kind |-> "scalar", dtype |-> dtype, val |-> <<v>>, obj |-> "new"]
Array(dtype, s) ==
    [kind |-> "array", dtype |-> dtype, val |-> s, obj |-> "new"]
NoOperand == [kind |-> "none", dtype |-> "none", val |-> <<>>, obj |-> "none"]
\* The object x as the caller's operand o.
Named(x, o) == [x EXCEPT !.obj = o]

\* Python ints: every pixel value and the two nearest values outside.
PyInts == (MIN_UINT - 1)..(MAX_UINT + 1)
\* Python floats, in halves: -0.5, 1.0, 1.5, 255.0, 255.5
PyFloatHalves == {-1, 2, 3, 510, 511}
\* Elements of the arrays, per dtype (float64 in halves: 1.0 and 255.5).
Uint8Elems == {0, 127, 255}
Int64Elems == {-1, 100, 256}
Float64Halves == {2, 511}

ArraysOf(dtype, E) ==
    UNION {{Array(dtype, s) : s \in [1..n -> E]} : n \in 1..MaxLen}

Scalars ==
    {Scalar("int", v) : v \in PyInts} \cup {Scalar("float", h) : h \in PyFloatHalves}
Arrays ==
    ArraysOf("uint8", Uint8Elems) \cup ArraysOf("int64", Int64Elems)
        \cup ArraysOf("float64", Float64Halves)
Operands == Scalars \cup Arrays

(***************************************************************************)
(* Outcomes of a call                                                      *)
(***************************************************************************)
Value(x) == [kind |-> "value", err |-> "", res |-> x, flag |-> FALSE]
Bool(f) == [kind |-> "bool", err |-> "", res |-> NoOperand, flag |-> f]
ReturnNone == [kind |-> "none", err |-> "", res |-> NoOperand, flag |-> FALSE]
Raise(e) == [kind |-> "error", err |-> e, res |-> NoOperand, flag |-> FALSE]
NoOutcome == [kind |-> "pending", err |-> "", res |-> NoOperand, flag |-> FALSE]

(***************************************************************************)
(* Python and NumPy primitives the module uses                             *)
(***************************************************************************)
Min(x, y) == IF x <= y THEN x ELSE y
Max(x, y) == IF x >= y THEN x ELSE y

FloatDtypes == {"float", "float64"}
IntegerDtypes == {"uint8", "int64"}
\* How many stored units make 1 (floats are stored in halves).
Scale(dtype) == IF dtype \in FloatDtypes THEN 2 ELSE 1

\* hasattr(x, 'dtype'): NumPy arrays and NumPy scalars, not Python numbers.
HasDtype(x) == x.dtype \notin {"int", "float"}

np_isscalar(x) == x.kind = "scalar"

\* The value of a scalar operand.
PyVal(x) == x.val[1]

\* Storage arithmetic: uint8 wraps modulo 256; int64 and Python ints hold
\* every value these functions can produce (at most 255 * 255).
Wrap(dtype, v) == IF dtype = "uint8" THEN v % 256 ELSE v

\* Result dtype of a binary operation, NumPy's value-based casting:
\* two Python ints stay Python ints; two arrays promote by dtype; an array
\* with a scalar keeps the array's dtype when the scalar's value fits it;
\* two scalars, one of them NumPy's, promote by dtype with int as int64.
ResultDtype(x, y) ==
    IF x.dtype = "int" /\ y.dtype = "int" THEN "int"
    ELSE IF x.kind = "array" /\ y.kind = "array"
        THEN IF x.dtype = "uint8" /\ y.dtype = "uint8" THEN "uint8" ELSE "int64"
    ELSE IF x.kind = "array"
        THEN IF x.dtype = "uint8" /\ PyVal(y) \in 0..255 THEN "uint8" ELSE "int64"
    ELSE IF y.kind = "array"
        THEN IF y.dtype = "uint8" /\ PyVal(x) \in 0..255 THEN "uint8" ELSE "int64"
    ELSE IF x.dtype = "uint8" /\ y.dtype = "uint8" THEN "uint8" ELSE "int64"

ResultKind(x, y) ==
    IF x.kind = "array" \/ y.kind = "array" THEN "array" ELSE "scalar"

\* Broadcast length of two one-dimensional shapes; 0 when they do not
\* broadcast (NumPy raises ValueError).  A scalar broadcasts as length 1.
BroadcastLen(m, n) ==
    IF m = n THEN m ELSE IF m = 1 THEN n ELSE IF n = 1 THEN m ELSE 0

Elem(x, i) == IF Len(x.val) = 1 THEN x.val[1] ELSE x.val[i]

Plus(u, v) == u + v
Minus(u, v) == u - v
Times(u, v) == u * v
\* Integer `/` of NumPy under Python 2: floor division, and 0 (with a
\* warning, no exception) where the divisor is 0.
NpFloorDiv(u, v) == IF v = 0 THEN 0 ELSE u \div v

Apply(f, u, v) ==
    CASE f = "+" -> Plus(u, v)
      [] f = "-" -> Minus(u, v)
      [] f = "*" -> Times(u, v)
      [] f = "/" -> NpFloorDiv(u, v)

\* x f y, elementwise with broadcasting, stored in the result dtype.
Elementwise(x, y, f) ==
    LET dt == ResultDtype(x, y)
        n == BroadcastLen(Len(x.val), Len(y.val))
    IN [kind |-> ResultKind(x, y), dtype |-> dt,
        val |-> [i \in 1..n |-> Wrap(dt, Apply(f, Elem(x, i), Elem(y, i)))],
        obj |-> "new"]

np_add(x, y) == Elementwise(x, y, "+")
np_subtract(x, y) == Elementwise(x, y, "-")
np_multiply(x, y) == Elementwise(x, y, "*")
np_divide(x, y) == Elementwise(x, y, "/")

\* np.clip(x, lo, hi) with Python int bounds: minimum(maximum(x, lo), hi).
\* Of a Python int it is a NumPy int64 scalar.  No `out` is passed: the
\* result is a new object.
np_clip(x, lo, hi) ==
    LET dt == IF x.dtype = "int" THEN "int64"
              ELSE IF ResultDtype(x, Scalar("int", lo)) = "uint8"
                      /\ ResultDtype(x, Scalar("int", hi)) = "uint8" THEN "uint8"
              ELSE "int64"
    IN [kind |-> x.kind, dtype |-> dt,
        val |-> [i \in 1..Len(x.val) |-> Wrap(dt, Min(Max(x.val[i], lo), hi))],
        obj |-> "new"]

\* np.uint8(x): the cast keeps the low 8 bits.  An array that is uint8
\* already needs no cast and is handed back as the object it is.
np_uint8(x) ==
    [kind |-> x.kind, dtype |-> "uint8",
     val |-> [i \in 1..Len(x.val) |-> x.val[i] % 256],
     obj |-> IF x.kind = "array" /\ x.dtype = "uint8" THEN x.obj ELSE "new"]

(***************************************************************************)
(* uintmath.py                                                             *)
(***************************************************************************)
\* is_uint8_like with the type tests left out: the range alone decides.
is_uint8_like_range_only(x) ==
    IF (\E i \in 1..Len(x.val) : x.val[i] < MIN_UINT * Scale(x.dtype))
        \/ (\E i \in 1..Len(x.val) : x.val[i] > MAX_UINT * Scale(x.dtype))
        THEN FALSE
    ELSE TRUE

is_uint8_like(x) ==
    IF (\E i \in 1..Len(x.val) : x.val[i] < MIN_UINT * Scale(x.dtype))
        \/ (\E i \in 1..Len(x.val) : x.val[i] > MAX_UINT * Scale(x.dtype))
        THEN FALSE
    ELSE IF HasDtype(x) /\ x.dtype \in IntegerDtypes THEN TRUE
    ELSE IF x.dtype = "int" THEN TRUE
    ELSE FALSE

\* add_uint with the clip left out: the sum is cast as it is.
add_uint_noclip(x, y) ==
    IF ~(is_uint8_like(x) /\ is_uint8_like(y)) THEN Raise("AssertionError")
    ELSE IF np_isscalar(y) THEN Value(np_uint8(np_add(x, y)))
    ELSE IF np_isscalar(x) THEN Value(np_uint8(np_add(y, x)))
    ELSE ReturnNone

add_uint(x, y) ==
    IF ~(is_uint8_like(x) /\ is_uint8_like(y)) THEN Raise("AssertionError")
    ELSE IF np_isscalar(y)
        THEN Value(np_uint8(np_add(np_clip(x, MIN_UINT, MAX_UINT - PyVal(y)), y)))
    ELSE IF np_isscalar(x)
        THEN Value(np_uint8(np_add(np_clip(y, MIN_UINT, MAX_UINT - PyVal(x)), x)))
    ELSE ReturnNone

\* subtract_uint with the scalar minuend's clip left out.
subtract_uint_noclip(x, y) ==
    IF ~(is_uint8_like(x) /\ is_uint8_like(y)) THEN Raise("AssertionError")
    ELSE IF np_isscalar(y)
        THEN Value(np_uint8(np_subtract(np_clip(x, MIN_UINT + PyVal(y), MAX_UINT), y)))
    ELSE IF np_isscalar(x) THEN Value(np_uint8(np_subtract(x, y)))
    ELSE ReturnNone

subtract_uint(x, y) ==
    IF ~(is_uint8_like(x) /\ is_uint8_like(y)) THEN Raise("AssertionError")
    ELSE IF np_isscalar(y)
        THEN Value(np_uint8(np_subtract(np_clip(x, MIN_UINT + PyVal(y), MAX_UINT), y)))
    ELSE IF np_isscalar(x)
        THEN Value(np_uint8(np_subtract(x, np_clip(y, MIN_UINT, MIN_UINT + PyVal(x)))))
    ELSE ReturnNone

\* maxval = np.floor(MAX_UINT / b), of two Python ints.
maxval_of(s) == MAX_UINT \div s

\* The threshold test off by one: a < maxval.
InMask_strict(u, maxval) == u < maxval

\* mask = a <= maxval; the scalar branch clamps on a > maxval, its negation.
InMask(u, maxval) == u <= maxval

\* The masked product stored into the operand itself (c = a) instead of a
\* new array.
MaskedProduct_inplace(x, y, maxval) ==
    LET prod == np_multiply(x, y)
    IN Named(Array("uint8",
                   [i \in 1..Len(x.val) |->
                       IF InMask(x.val[i], maxval) THEN prod.val[i] % 256 ELSE MAX_UINT]),
             x.obj)

\* c = np.empty(a.shape, dtype=np.uint8); c[~mask] = MAX_UINT;
\* c[mask] = a[mask] * b, with mask = a <= maxval.  Storing into c casts
\* to uint8.
MaskedProduct(x, y, maxval) ==
    LET prod == np_multiply(x, y)
    IN Array("uint8",
             [i \in 1..Len(x.val) |->
                 IF InMask(x.val[i], maxval) THEN prod.val[i] % 256 ELSE MAX_UINT])

multiply_uint(x, y) ==
    IF ~(is_uint8_like(x) /\ is_uint8_like(y)) THEN Raise("AssertionError")
    ELSE IF np_isscalar(x) /\ np_isscalar(y)
        THEN IF PyVal(y) = 0 THEN Raise("ZeroDivisionError")
             ELSE IF ~InMask(PyVal(x), maxval_of(PyVal(y)))
                 THEN Value(np_uint8(Scalar("int", MAX_UINT)))
             \* `npint8` is no name of the module
             ELSE Raise("NameError")
    ELSE LET x1 == IF np_isscalar(x) THEN y ELSE x
             y1 == IF np_isscalar(x) THEN x ELSE y
         IN IF np_isscalar(y1)
                THEN IF PyVal(y1) = 0 THEN Raise("ZeroDivisionError")
                     ELSE Value(MaskedProduct(x1, y1, maxval_of(PyVal(y1))))
            \* `return c` with c never assigned
            ELSE Raise("UnboundLocalError")

\* divide_uint asserting on the dividend alone.
divide_uint_dividend_checked(x, y) ==
    IF ~is_uint8_like(x) THEN Raise("AssertionError")
    ELSE IF np_isscalar(x) /\ np_isscalar(y)
        THEN IF PyVal(y) = 0 THEN Raise("ZeroDivisionError")
             ELSE Value(np_uint8(Scalar("int",
                        (PyVal(x) + PyVal(y) \div 2) \div PyVal(y))))
    ELSE IF BroadcastLen(Len(x.val), Len(y.val)) = 0 THEN Raise("ValueError")
    ELSE Value(np_uint8(np_divide(np_add(x, np_divide(y, Scalar("int", 2))), y)))

\* np.uint8((a + b / 2) / b).  Two Python ints divide as Python does
\* (ZeroDivisionError on 0); anything with an array divides as NumPy does.
divide_uint(x, y) ==
    IF ~(is_uint8_like(x) /\ is_uint8_like(y)) THEN Raise("AssertionError")
    ELSE IF np_isscalar(x) /\ np_isscalar(y)
        THEN IF PyVal(y) = 0 THEN Raise("ZeroDivisionError")
             ELSE Value(np_uint8(Scalar("int",
                        (PyVal(x) + PyVal(y) \div 2) \div PyVal(y))))
    ELSE IF BroadcastLen(Len(x.val), Len(y.val)) = 0 THEN Raise("ValueError")
    ELSE Value(np_uint8(np_divide(np_add(x, np_divide(y, Scalar("int", 2))), y)))

\* What the operand object x holds after a call with outcome o.  The only
\* stores of the module are c[~mask] = ... and c[mask] = ... into the array
\* multiply_uint returns: an operand changes only if it is that array.
After(x, o) ==
    IF o.kind = "value" /\ o.res.obj = x.obj
        THEN [x EXCEPT !.val = o.res.val, !.dtype = o.res.dtype]
    ELSE x

(***************************************************************************)
(* The calls                                                               *)
(***************************************************************************)
Init ==
    /\ pc = "idle"
    /\ op = "none"
    /\ a = NoOperand
    /\ b = NoOperand
    /\ out = NoOutcome
    /\ out2 = NoOutcome
    /\ a_after = NoOperand
    /\ b_after = NoOperand

CallIsUint8Like ==
    /\ pc = "idle"
    /\ \E x \in Operands :
        /\ a' = Named(x, "a")
        /\ b' = NoOperand
        /\ out' = Bool(is_uint8_like(Named(x, "a")))
        /\ a_after' = Named(x, "a")
        /\ b_after' = NoOperand
    /\ op' = "is_uint8_like"
    /\ pc' = "done"
    /\ out2' = NoOutcome

CallAdd ==
    /\ pc = "idle"
    /\ \E x \in Operands, y \in Operands :
        LET xa == Named(x, "a")
            yb == Named(y, "b")
            o == add_uint(xa, yb)
        IN /\ a' = xa
           /\ b' = yb
           /\ out' = o
           /\ a_after' = After(xa, o)
           /\ b_after' = After(yb, o)
    /\ op' = "add_uint"
    /\ pc' = "done"
    /\ out2' = NoOutcome

CallSubtract ==
    /\ pc = "idle"
    /\ \E x \in Operands, y \in Operands :
        LET xa == Named(x, "a")
            yb == Named(y, "b")
            o == subtract_uint(xa, yb)
        IN /\ a' = xa
           /\ b' = yb
           /\ out' = o
           /\ a_after' = After(xa, o)
           /\ b_after' = After(yb, o)
    /\ op' = "subtract_uint"
    /\ pc' = "done"
    /\ out2' = NoOutcome

CallMultiply ==
    /\ pc = "idle"
    /\ \E x \in Operands, y \in Operands :
        LET xa == Named(x, "a")
            yb == Named(y, "b")
            o == multiply_uint(xa, yb)
        IN /\ a' = xa
           /\ b' = yb
           /\ out' = o
           /\ a_after' = After(xa, o)
           /\ b_after' = After(yb, o)
    /\ op' = "multiply_uint"
    /\ pc' = "done"
    /\ out2' = NoOutcome

CallDivide ==
    /\ pc = "idle"
    /\ \E x \in Operands, y \in Operands :
        LET xa == Named(x, "a")
            yb == Named(y, "b")
            o == divide_uint(xa, yb)
        IN /\ a' = xa
           /\ b' = yb
           /\ out' = o
           /\ a_after' = After(xa, o)
           /\ b_after' = After(yb, o)
    /\ op' = "divide_uint"
    /\ pc' = "done"
    /\ out2' = NoOutcome

\* The caller of add_uint or multiply_uint calls the same function again
\* with the operands exchanged, as the tests do (add_uint(a, b), then
\* add_uint(b, a)); out2 is the outcome of the second call.
CallExchanged ==
    /\ pc = "done"
    /\ op \in {"add_uint", "multiply_uint"}
    /\ LET o == IF op = "add_uint" THEN add_uint(b_after, a_after)
                ELSE multiply_uint(b_after, a_after)
       IN /\ out2' = o
          /\ a_after' = After(a_after, o)
          /\ b_after' = After(b_after, o)
    /\ pc' = "exchanged"
    /\ UNCHANGED <<op, a, b, out>>

\* The caller has its result; the next call starts from nothing.
Return ==
    /\ pc \in {"done", "exchanged"}
    /\ pc' = "idle"
    /\ op' = "none"
    /\ a' = NoOperand
    /\ b' = NoOperand
    /\ out' = NoOutcome
    /\ out2' = NoOutcome
    /\ a_after' = NoOperand
    /\ b_after' = NoOperand

Next ==
    \/ CallIsUint8Like
    \/ CallAdd
    \/ CallSubtract
    \/ CallMultiply
    \/ CallDivide
    \/ CallExchanged
    \/ Return

Spec == Init /\ [][Next]_vars

TypeOK ==
    /\ pc \in {"idle", "done", "exchanged"}
    /\ out.kind \in {"pending", "value", "bool", "none", "error"}
(***************************************************************************)
(* What the contract says, independently of the code                       *)
(***************************************************************************)
\* Integral type and every element in [0, 255].
Uint8Like(x) ==
    /\ x.dtype \in {"int", "uint8", "int64"}
    /\ \A i \in 1..Len(x.val) : x.val[i] >= 0 /\ x.val[i] <= 255

Arithmetic == {"add_uint", "subtract_uint", "multiply_uint", "divide_uint"}
Called(f) == pc = "done" /\ op = f
ValidCall(f) == Called(f) /\ Uint8Like(a) /\ Uint8Like(b)
OneScalar == a.kind = "scalar" \/ b.kind = "scalar"
BothArrays == a.kind = "array" /\ b.kind = "array"
SameShape == BothArrays /\ Len(a.val) = Len(b.val)
\* Shape of the result: that of the array operand.
ResultLen == Max(Len(a.val), Len(b.val))

SatAdd(u, v) == Min(u + v, 255)
SatSub(u, v) == Max(u - v, 0)
SatMul(u, v) == Min(u * v, 255)
\* a / b to the nearest integer, halves up
RoundDiv(u, v) == (2 * u + v) \div (2 * v)

Expected(g, u, v) ==
    CASE g = "SatAdd" -> SatAdd(u, v)
      [] g = "SatSub" -> SatSub(u, v)
      [] g = "SatMul" -> SatMul(u, v)
      [] g = "RoundDiv" -> RoundDiv(u, v)

\* The call returned a value of the operands' shape whose element i is
\* g(a[i], b[i]).
Returns(g) ==
    /\ out.kind = "value"
    /\ out.res.kind = (IF a.kind = "array" \/ b.kind = "array"
                        THEN "array" ELSE "scalar")
    /\ Len(out.res.val) = ResultLen
    /\ \A i \in 1..ResultLen : out.res.val[i] = Expected(g, Elem(a, i), Elem(b, i))

\* C1: add_uint of uint8-like operands, at least one of them a scalar,
\* returns min(a[i] + b[i], 255) for each element.
C1_AddSaturates ==
    (ValidCall("add_uint") /\ OneScalar) => Returns("SatAdd")

\* An array plus a scalar, one element clamped to 255 and one not.
C1_Witness ==
    /\ ValidCall("add_uint")
    /\ a.kind = "array" /\ b.kind = "scalar"
    /\ out.kind = "value"
    /\ \E i \in 1..Len(a.val) : a.val[i] + PyVal(b) > 255 /\ out.res.val[i] = 255
    /\ \E i \in 1..Len(a.val) : a.val[i] + PyVal(b) < 255

\* C2: subtract_uint of uint8-like operands, at least one of them a scalar,
\* returns max(a[i] - b[i], 0) for each element, a being the minuend,
\* whichever operand is the scalar.
C2_SubtractSaturates ==
    (ValidCall("subtract_uint") /\ OneScalar) => Returns("SatSub")

\* A scalar minuend smaller than an element of the array subtracted from it.
C2_Witness ==
    /\ ValidCall("subtract_uint")
    /\ a.kind = "scalar" /\ b.kind = "array"
    /\ out.kind = "value"
    /\ \E i \in 1..Len(b.val) : b.val[i] > PyVal(a) /\ out.res.val[i] = 0
    /\ \E i \in 1..Len(b.val) : b.val[i] < PyVal(a) /\ out.res.val[i] > 0

\* C3: multiply_uint of uint8-like operands, at least one of them a scalar
\* (0 and products that do not overflow included), returns
\* min(a[i] * b[i], 255) for each element.
C3_MultiplySaturates ==
    (ValidCall("multiply_uint") /\ OneScalar) => Returns("SatMul")
\* C4: divide_uint of a in 0..255 by b in 1..255 (two scalars, an array by a
\* scalar, or two arrays of one shape) returns a[i] / b[i] rounded to the
\* nearest integer, halves up: floor((2 a[i] + b[i]) / (2 b[i])).
C4_DivideRounds ==
    (/\ ValidCall("divide_uint")
     /\ \A i \in 1..Len(b.val) : b.val[i] >= 1
     /\ b.kind = "scalar" \/ SameShape)
        => Returns("RoundDiv")

\* C5: add_uint, subtract_uint and multiply_uint of two uint8-like arrays of
\* one shape each return the array of that shape of the saturated results.
C5_ArrayArray ==
    /\ (ValidCall("add_uint") /\ SameShape) => Returns("SatAdd")
    /\ (ValidCall("subtract_uint") /\ SameShape) => Returns("SatSub")
    /\ (ValidCall("multiply_uint") /\ SameShape) => Returns("SatMul")

\* C6: is_uint8_like(x) is true exactly when x is of an integral type and
\* every element of x lies in [0, 255].
C6_IsUint8Like ==
    Called("is_uint8_like") => (out.kind = "bool" /\ out.flag = Uint8Like(a))

\* The whole-number float 1.0 is refused.
C6_Witness ==
    /\ Called("is_uint8_like")
    /\ a = Named(Scalar("float", 2), "a")
    /\ out = Bool(FALSE)

\* C7: each arithmetic operation, given an operand that is not uint8-like,
\* ends in the assertion's error, raised before any arithmetic, and returns
\* no result.
C7_InvalidOperandRejected ==
    (/\ pc = "done"
     /\ op \in Arithmetic
     /\ ~(Uint8Like(a) /\ Uint8Like(b)))
        => out = Raise("AssertionError")

\* 256 / 0: the operand is refused before the division can fail.
C7_Witness ==
    /\ Called("divide_uint")
    /\ a = Named(Scalar("int", 256), "a")
    /\ b = Named(Scalar("int", 0), "b")
    /\ out = Raise("AssertionError")

\* C8: divide_uint by a divisor that is 0, or an array holding a 0, ends in
\* the division-by-zero error and returns no value.
C8_DivideByZeroRaises ==
    (/\ ValidCall("divide_uint")
     /\ \E i \in 1..Len(b.val) : b.val[i] = 0
     /\ OneScalar \/ SameShape)
        => out = Raise("ZeroDivisionError")

\* C9: each arithmetic operation, given two uint8-like arrays of different
\* shapes, ends in a shape-mismatch error and returns no result.
C9_ShapeMismatchRaises ==
    (/\ pc = "done"
     /\ op \in Arithmetic
     /\ Uint8Like(a) /\ Uint8Like(b)
     /\ BothArrays /\ Len(a.val) # Len(b.val))
        => out = Raise("ValueError")

\* C10: every element of the result of an arithmetic operation on uint8-like
\* operands (a divisor above 0) is an integer in [0, 255].
C10_ResultsInRange ==
    (/\ pc = "done"
     /\ op \in Arithmetic
     /\ Uint8Like(a) /\ Uint8Like(b)
     /\ OneScalar \/ SameShape
     /\ op = "divide_uint" => \A i \in 1..Len(b.val) : b.val[i] > 0)
        => /\ out.kind = "value"
           /\ Len(out.res.val) = ResultLen
           /\ \A i \in 1..ResultLen : out.res.val[i] \in 0..255
\* C11: for uint8-like operands in any scalar/array combination, add_uint(a, b)
\* and add_uint(b, a) have the same outcome, and so have multiply_uint(a, b)
\* and multiply_uint(b, a).
C11_Commutative ==
    (pc = "exchanged" /\ Uint8Like(a) /\ Uint8Like(b)) => out2 = out
\* C12: no arithmetic operation changes its operands: when the call has
\* ended, returned or failed, a and b hold what they held before it, and a
\* returned array is neither of them.
C12_OperandsUnchanged ==
    (pc \in {"done", "exchanged"} /\ op \in Arithmetic)
        => /\ a_after = a
           /\ b_after = b
           /\ out.kind = "value" => out.res.obj \notin {a.obj, b.obj}
           /\ out2.kind = "value" => out2.res.obj \notin {a.obj, b.obj}

\* multiply_uint returned an array that differs from its array operand, which
\* still holds its elements.
C12_Witness ==
    /\ ValidCall("multiply_uint")
    /\ a.kind = "array" /\ b.kind = "scalar"
    /\ out.kind = "value"
    /\ out.res.val # a.val
    /\ a_after = a
    /\ out.res.obj = "new"
\* The operand multiply_uint takes the threshold from (b, or the scalar a
\* exchanged with an array b), and the other one.
Multiplier == IF a.kind = "scalar" /\ b.kind = "array" THEN a ELSE b
Multiplicand == IF a.kind = "scalar" /\ b.kind = "array" THEN b ELSE a

\* C13: for every element value u in 0..255 and scalar multiplier s in 1..255
\* the threshold test of multiply_uint, u <= floor(255 / s), holds exactly
\* when u * s <= 255: an element is clamped to 255 exactly when its true
\* product exceeds 255.
C13_ThresholdIsClamp ==
    (/\ ValidCall("multiply_uint")
     /\ OneScalar
     /\ PyVal(Multiplier) >= 1)
        => \A i \in 1..Len(Multiplicand.val) :
            LET u == Multiplicand.val[i]
                s == PyVal(Multiplier)
            IN /\ InMask(u, maxval_of(s)) <=> u * s <= 255
               /\ u * s > 255 => (out.kind = "value" /\ out.res.val[i] = 255)
               /\ (u * s <= 255 /\ Multiplicand.kind = "array")
                      => (out.kind = "value" /\ out.res.val[i] = u * s)

\* An array times 2: the element 127, at the threshold, is kept as 254 and
\* the element 255 is clamped.
C13_Witness ==
    /\ ValidCall("multiply_uint")
    /\ a.kind = "array" /\ b.kind = "scalar" /\ PyVal(b) = 2
    /\ out.kind = "value"
    /\ \E i \in 1..Len(a.val) : a.val[i] = 127 /\ out.res.val[i] = 254
    /\ \E i \in 1..Len(a.val) : a.val[i] = 255 /\ out.res.val[i] = 255
\* C14: divide_uint of an array stored as uint8 by a scalar b in 1..255
\* returns round-half-up of a[i] / b for every element: the sum
\* a[i] + floor(b / 2) the function computes never wraps modulo 256.
C14_Uint8DivideNoWrap ==
    (/\ ValidCall("divide_uint")
     /\ a.kind = "array" /\ a.dtype = "uint8"
     /\ b.kind = "scalar" /\ PyVal(b) >= 1)
        => /\ np_add(a, np_divide(b, Scalar("int", 2))).val
                  = [i \in 1..Len(a.val) |-> a.val[i] + PyVal(b) \div 2]
           /\ out.kind = "value"
           /\ \A i \in 1..Len(a.val) :
                  out.res.val[i] = (2 * a.val[i] + PyVal(b)) \div (2 * PyVal(b))
====
